---- MODULE Spec2Model ----
(***************************************************************************)
(* A model of feast-trino's offline store (src/feast-trino/trino.py):      *)
(*   - the relations computed by the SQL that the template                 *)
(*     MULTIPLE_FEATURE_VIEW_POINT_IN_TIME_JOIN renders, one operator per  *)
(*     common table expression;                                            *)
(*   - the relation computed by the query of                               *)
(*     pull_latest_from_table_or_query;                                    *)
(*   - TrinoRetrievalJob and the statements it submits to the client.      *)
(*                                                                         *)
(* SQL tables are bags.  A table is modelled as a set of records           *)
(* [id |-> ..., c |-> ...]: c maps column names to values and id tells     *)
(* which copies of which input rows the row derives from, so that two      *)
(* rows with the same column values stay two rows.  Rows produced by       *)
(* GROUP BY are distinct by construction and carry no id.                  *)
(* All modelled columns are NOT NULL in the input tables; NULL arises      *)
(* from MAX/MIN over an empty table and from LEFT JOIN.                    *)
(***************************************************************************)
EXTENDS Integers, Sequences, FiniteSets, TLC

\* ------------------------------------------------------------------ bounds
MaxReq == 2      \* rows of the entity request table
MaxSrc == 2      \* rows of one feature view's source table
MaxTs == 2       \* timestamps are 0..MaxTs (seconds within one minute)

\* ------------------------------------------------------------- SQL values
NULL == <<>>                 \* SQL NULL; a non-null feature value v is <<v>>

Range(s) == {s[i] : i \in DOMAIN s}

Digit(d) ==
    CASE d = 0 -> "0" [] d = 1 -> "1" [] d = 2 -> "2" [] d = 3 -> "3"
      [] d = 4 -> "4" [] d = 5 -> "5" [] d = 6 -> "6" [] d = 7 -> "7"
      [] d = 8 -> "8" [] d = 9 -> "9"

\* CAST(<bigint> AS VARCHAR): the decimal digits, no padding.
RECURSIVE CastIntVarchar(_)
CastIntVarchar(n) ==
    IF n < 10 THEN Digit(n) ELSE CastIntVarchar(n \div 10) \o Digit(n % 10)

\* CAST(<timestamp(3)> AS VARCHAR): fixed width, 'YYYY-MM-DD hh:mm:ss.fff'.
\* Timestamp t is t seconds after 2021-01-01 00:00:00, t < 60.
CastTsVarchar(t) ==
    "2021-01-01 00:00:" \o Digit(t \div 10) \o Digit(t % 10) \o ".000"

\* ------------------------------------------------------------------- bags
\* The input tables are bags of rows: functions from rows to copy counts.
EmptyBag == [x \in {} |-> 0]
BagAdd(B, x) ==
    IF x \in DOMAIN B THEN [B EXCEPT ![x] = @ + 1]
    ELSE [y \in DOMAIN B \cup {x} |-> IF y = x THEN 1 ELSE B[y]]
RECURSIVE BagsUpTo(_, _)
BagsUpTo(D, n) ==
    IF n = 0 THEN {EmptyBag}
    ELSE LET S == BagsUpTo(D, n - 1) IN S \cup {BagAdd(B, x) : B \in S, x \in D}
\* The table as a set of rows: copy k of row r has id <<r, k>>.
TableRows(B) ==
    UNION {{[id |-> <<r, k>>, c |-> r] : k \in 1..B[r]} : r \in DOMAIN B}

\* ------------------------------------------------------------------ state
VARIABLES
    featureviews,  \* the query contexts of the registered feature views
    tables,        \* the engine's tables: table name -> bag of rows
    job,           \* the TrinoRetrievalJob handed to the caller, or NoJob
    submitted,     \* the statements handed to Trino.execute_query, in order
    calls,         \* the calls made so far to the offline store and to the
                   \* job, with what each was given, found and returned
    result         \* what the last operation returned to the caller

vars == <<featureviews, tables, job, submitted, calls, result>>

NoJob == [query |-> [template |-> "none"]]
NoResult == [kind |-> "none"]

\* ------------------------------------------- point-in-time join: the inputs
KeyVals == {1, 11}                 \* values of the join-key columns
FeatureVals == {1, 2}              \* values of a feature column
Ttls == {0, 1}                     \* ttl in seconds; 0: no staleness limit
EventTimes == 0..MaxTs             \* event timestamps of source rows
CreatedTimes == 0..1               \* created timestamps of source rows
RequestTimes == 1..MaxTs           \* timestamps of entity request rows

EntityDfCols == {"driver_id", "customer_id", "event_timestamp"}
entity_df_event_timestamp_col == "event_timestamp"
EntityTable == "feast_entity_df"

Restrict(f, S) == [x \in S |-> f[x]]

EntityDfRows ==
    {k @@ t : k \in [EntityDfCols \ {entity_df_event_timestamp_col} -> KeyVals],
              t \in [{entity_df_event_timestamp_col} -> RequestTimes]}

\* The columns a feature view reads from its source, and the rows a source
\* can hold.  A feature value v is stored as <<v>> so that it differs from NULL.
TimestampCols(fv) ==
    {fv.event_timestamp_column}
        \cup (IF fv.created_timestamp_column # "" THEN {fv.created_timestamp_column} ELSE {})
SourceRows(fv) ==
    {k @@ f @@ t : k \in [Range(fv.entities) -> KeyVals],
                   f \in [Range(fv.features) -> {<<v>> : v \in FeatureVals}],
                   t \in {t \in [TimestampCols(fv) -> EventTimes \cup CreatedTimes] :
                            /\ t[fv.event_timestamp_column] \in EventTimes
                            /\ fv.created_timestamp_column # ""
                                  => t[fv.created_timestamp_column] \in CreatedTimes}}

\* ---------------------------------- MULTIPLE_FEATURE_VIEW_POINT_IN_TIME_JOIN
\* A rendered template is the record q of its parameters; the operators below
\* give the relation each of its common table expressions denotes over the
\* tables db.

UidCol(fv) == fv.name \o "__entity_row_unique_id"

\* A slip in the qualified name: the feature before the view.
FeatureOutNameSwapped(fv, feature, full_feature_names) ==
    IF full_feature_names THEN feature \o "__" \o fv.name ELSE feature

\* The name a feature column gets in <fv>__subquery and in the final SELECT.
FeatureOutName(fv, feature, full_feature_names) ==
    IF full_feature_names THEN fv.name \o "__" \o feature ELSE feature

RECURSIVE ConcatEntities(_, _, _)
ConcatEntities(entities, row, i) ==
    IF i > Len(entities) THEN ""
    ELSE CastIntVarchar(row[entities[i]]) \o ConcatEntities(entities, row, i + 1)

\* CONCAT(CAST(e1 AS VARCHAR), ..., CAST(ts AS VARCHAR)): no separator.
EntityRowUniqueId(fv, row, ts_col) ==
    IF fv.entities # <<>>
    THEN ConcatEntities(fv.entities, row, 1) \o CastTsVarchar(row[ts_col])
    ELSE CastTsVarchar(row[ts_col])

\* WITH entity_dataframe AS (SELECT *, ts AS entity_timestamp, <uid per view>)
entity_dataframe(q, db) ==
    {[id |-> e.id,
      c |-> e.c @@ ("entity_timestamp" :> e.c[q.entity_df_event_timestamp_col])
                @@ [u \in {UidCol(q.featureviews[i]) : i \in DOMAIN q.featureviews} |->
                      LET i == CHOOSE j \in DOMAIN q.featureviews :
                                   UidCol(q.featureviews[j]) = u
                      IN EntityRowUniqueId(q.featureviews[i], e.c,
                                           q.entity_df_event_timestamp_col)]]
       : e \in TableRows(db[q.left_table_query_string])}

\* <fv>__entity_dataframe: GROUP BY entities, entity_timestamp, uid.
fv_entity_dataframe(q, db, fv) ==
    {Restrict(e.c, Range(fv.entities) \cup {"entity_timestamp", UidCol(fv)})
       : e \in entity_dataframe(q, db)}

\* MAX / MIN of a column over a non-empty table.
SetMax(S) == CHOOSE x \in S : \A y \in S : y <= x
SetMin(S) == CHOOSE x \in S : \A y \in S : x <= y

\* The projection of <fv>__subquery (template lines 312-317).
SubqueryProject(q, fv, s) ==
    [id |-> s.id,
     c |-> ("event_timestamp" :> s.c[fv.event_timestamp_column])
           @@ (IF fv.created_timestamp_column # ""
               THEN ("created_timestamp" :> s.c[fv.created_timestamp_column])
               ELSE <<>>)
           @@ Restrict(s.c, Range(fv.entities))
           @@ [n \in {FeatureOutName(fv, fv.features[k], q.full_feature_names)
                        : k \in DOMAIN fv.features} |->
                 LET k == CHOOSE j \in DOMAIN fv.features :
                              FeatureOutName(fv, fv.features[j], q.full_feature_names) = n
                 IN s.c[fv.features[k]]]]

\* A slip in the pre-filter: the upper bound taken from MIN(entity_timestamp).
SubqueryWhereMin(q, db, fv, s) ==
    LET ts == {e.c["entity_timestamp"] : e \in entity_dataframe(q, db)}
        ets == s.c[fv.event_timestamp_column]
    IN /\ ts # {}
       /\ ets <= SetMin(ts)
       /\ (fv.ttl = 0 \/ ets >= SetMin(ts) - fv.ttl)

\* The WHERE of <fv>__subquery.  Over an empty entity_dataframe MAX and MIN
\* are NULL, and a comparison with NULL is not true.
SubqueryWhere(q, db, fv, s) ==
    LET ts == {e.c["entity_timestamp"] : e \in entity_dataframe(q, db)}
        ets == s.c[fv.event_timestamp_column]
    IN /\ ts # {}
       /\ ets <= SetMax(ts)
       /\ (fv.ttl = 0 \/ ets >= SetMin(ts) - fv.ttl)

subquery(q, db, fv) ==
    {SubqueryProject(q, fv, s) : s \in {s \in TableRows(db[fv.table_subquery]) :
                                           SubqueryWhere(q, db, fv, s)}}

\* The ON of <fv>__base.
BaseOn(fv, s, e) ==
    /\ s.c["event_timestamp"] <= e["entity_timestamp"]
    /\ (fv.ttl = 0 \/ s.c["event_timestamp"] >= e["entity_timestamp"] - fv.ttl)
    /\ \A k \in DOMAIN fv.entities : s.c[fv.entities[k]] = e[fv.entities[k]]

\* <fv>__base joined over the rows sub of the subquery.
BaseJoin(q, db, fv, sub) ==
    {[id |-> p[1].id,
      c |-> p[1].c @@ Restrict(p[2], {"entity_timestamp", UidCol(fv)})]
       : p \in {p \in sub \X fv_entity_dataframe(q, db, fv) : BaseOn(fv, p[1], p[2])}}

base(q, db, fv) == BaseJoin(q, db, fv, subquery(q, db, fv))

HasCreated(fv) == fv.created_timestamp_column # ""

\* <fv>__dedup: MAX(created_timestamp) GROUP BY uid, event_timestamp.
dedup(fv, b) ==
    {[g \in {UidCol(fv), "event_timestamp", "created_timestamp"} |->
        IF g = "created_timestamp"
        THEN SetMax({y.c["created_timestamp"] :
                       y \in {y \in b : /\ y.c[UidCol(fv)] = x.c[UidCol(fv)]
                                        /\ y.c["event_timestamp"] = x.c["event_timestamp"]}})
        ELSE x.c[g]] : x \in b}

\* The columns of the USING clauses of <fv>__latest and <fv>__cleaned.
UsingCols(fv) ==
    {UidCol(fv), "event_timestamp"}
        \cup (IF HasCreated(fv) THEN {"created_timestamp"} ELSE {})

\* ORDER BY event_timestamp DESC [, created_timestamp DESC]: x sorts before y.
OrderedBefore(fv, x, y) ==
    \/ x.c["event_timestamp"] > y.c["event_timestamp"]
    \/ /\ HasCreated(fv)
       /\ x.c["event_timestamp"] = y.c["event_timestamp"]
       /\ x.c["created_timestamp"] > y.c["created_timestamp"]

\* <fv>__latest: the row numbered 1 in each uid partition of the base rows
\* (joined to <fv>__dedup when there is a created timestamp).  ROW_NUMBER
\* numbers one of the rows no other row sorts before; all of them have the
\* same projection on the selected columns.
latest(fv, b) ==
    LET ranked == IF HasCreated(fv)
                  THEN {x \in b : Restrict(x.c, UsingCols(fv)) \in dedup(fv, b)}
                  ELSE b
        first == {x \in ranked :
                    ~\E y \in ranked : /\ y.c[UidCol(fv)] = x.c[UidCol(fv)]
                                       /\ OrderedBefore(fv, y, x)}
    IN {Restrict(x.c, UsingCols(fv)) : x \in first}

\* <fv>__cleaned: base INNER JOIN latest USING (uid, event_timestamp[, created]).
cleaned(fv, b) == {x \in b : Restrict(x.c, UsingCols(fv)) \in latest(fv, b)}

FeatureOutNames(fv, full_feature_names) ==
    {FeatureOutName(fv, fv.features[k], full_feature_names) : k \in DOMAIN fv.features}

\* A slip in the final SELECT: INNER JOIN, which drops unmatched request rows.
InnerJoinCleaned(q, rows, fv, cl) ==
    UNION {{[id |-> Append(r.id, x.id),
             c |-> r.c @@ Restrict(x.c, FeatureOutNames(fv, q.full_feature_names))]
              : x \in {x \in cl : x.c[UidCol(fv)] = r.c[UidCol(fv)]}}
           : r \in rows}

\* One LEFT JOIN (SELECT uid, features FROM <fv>__cleaned) USING (uid) of the
\* final SELECT: unmatched rows get NULL feature columns.
LeftJoinCleaned(q, rows, fv, cl) ==
    UNION {LET m == {x \in cl : x.c[UidCol(fv)] = r.c[UidCol(fv)]}
               names == FeatureOutNames(fv, q.full_feature_names)
           IN IF m = {}
              THEN {[id |-> Append(r.id, NULL), c |-> r.c @@ [n \in names |-> NULL]]}
              ELSE {[id |-> Append(r.id, x.id), c |-> r.c @@ Restrict(x.c, names)] : x \in m}
           : r \in rows}

\* The rows of <fv>__cleaned for each feature view, over the subquery rows
\* sub[i] of view i.
RECURSIVE JoinViews(_, _, _, _, _)
JoinViews(q, db, sub, rows, i) ==
    IF i > Len(q.featureviews) THEN rows
    ELSE LET fv == q.featureviews[i]
         IN JoinViews(q, db, sub,
                LeftJoinCleaned(q, rows, fv, cleaned(fv, BaseJoin(q, db, fv, sub[i]))),
                i + 1)

\* final_output_feature_names, as build_point_in_time_query passes it: the
\* entity dataframe's columns, then every view's feature columns.
final_output_feature_names(q) ==
    q.entity_df_columns
        \cup UNION {FeatureOutNames(q.featureviews[i], q.full_feature_names)
                      : i \in DOMAIN q.featureviews}

\* The final SELECT over given subquery rows.
FinalSelectOver(q, db, sub) ==
    {[id |-> r.id, c |-> Restrict(r.c, final_output_feature_names(q))]
       : r \in JoinViews(q, db, sub,
                         {[id |-> <<e.id>>, c |-> e.c] : e \in entity_dataframe(q, db)}, 1)}

\* The relation the rendered template denotes.
PointInTimeJoin(q, db) ==
    FinalSelectOver(q, db, [i \in DOMAIN q.featureviews |->
                              subquery(q, db, q.featureviews[i])])

\* --------------------------------------------- pull_latest_from_table_or_query
DUMMY_ENTITY_ID == "__dummy_id"      \* feast.feature_view
DUMMY_ENTITY_VAL == ""

\* str(datetime), as the f-string renders start_date and end_date, and the
\* timestamp the engine reads back from TIMESTAMP '<text>'.
StrDatetime(t) == "2021-01-01 00:00:" \o Digit(t \div 10) \o Digit(t % 10)
ParseTimestamp(text) == CHOOSE t \in 0..59 : StrDatetime(t) = text

\* timestamp_columns: the event timestamp, then the created timestamp if any.
SnapshotTimestampColumns(event_timestamp_column, created_timestamp_column) ==
    IF created_timestamp_column # ""
    THEN <<event_timestamp_column, created_timestamp_column>>
    ELSE <<event_timestamp_column>>

\* The rendered query of pull_latest_from_table_or_query.
PullLatestQuery(from_expression, join_key_columns, feature_name_columns, event_timestamp_column, created_timestamp_column, start_date, end_date) ==
    [template |-> "pull_latest",
     from_expression |-> from_expression,
     join_key_columns |-> join_key_columns,
     field_string |-> join_key_columns \o feature_name_columns
                        \o SnapshotTimestampColumns(event_timestamp_column,
                                                    created_timestamp_column),
     timestamp_columns |-> SnapshotTimestampColumns(event_timestamp_column,
                                                    created_timestamp_column),
     event_timestamp_column |-> event_timestamp_column,
     start_date |-> StrDatetime(start_date),
     end_date |-> StrDatetime(end_date)]

\* WHERE <event_timestamp_column> BETWEEN TIMESTAMP start AND TIMESTAMP end
SnapshotWhere(q, s) ==
    /\ ParseTimestamp(q.start_date) <= s.c[q.event_timestamp_column]
    /\ s.c[q.event_timestamp_column] <= ParseTimestamp(q.end_date)

\* A slip in timestamp_desc_string: the columns sorted ascending.
RECURSIVE SortsBeforeAscending(_, _, _, _)
SortsBeforeAscending(cols, i, x, y) ==
    /\ i <= Len(cols)
    /\ \/ x.c[cols[i]] < y.c[cols[i]]
       \/ x.c[cols[i]] = y.c[cols[i]] /\ SortsBeforeAscending(cols, i + 1, x, y)

\* ORDER BY <timestamp_columns[1]> DESC, ... : x sorts before y.
RECURSIVE SortsBefore(_, _, _, _)
SortsBefore(cols, i, x, y) ==
    /\ i <= Len(cols)
    /\ \/ x.c[cols[i]] > y.c[cols[i]]
       \/ x.c[cols[i]] = y.c[cols[i]] /\ SortsBefore(cols, i + 1, x, y)

\* The rows ROW_NUMBER() OVER (PARTITION BY join keys ORDER BY ...) may
\* number 1 in the partition of x: those no row of the partition sorts before.
SnapshotFirstRows(q, window, key) ==
    LET part == {x \in window : Restrict(x.c, Range(q.join_key_columns)) = key}
    IN {x \in part : ~\E y \in part : SortsBefore(q.timestamp_columns, 1, y, x)}

\* The outer SELECT: field_string, and the dummy entity id when there are no
\* join keys.
SnapshotProject(q, x) ==
    [id |-> <<x.id>>,
     c |-> Restrict(x.c, Range(q.field_string))
           @@ (IF q.join_key_columns = <<>>
               THEN (DUMMY_ENTITY_ID :> DUMMY_ENTITY_VAL) ELSE <<>>)]

\* The relations the query may return: ROW_NUMBER breaks ties arbitrarily, so
\* one result for every choice of a first row in each partition.
PullLatestResults(q, db) ==
    LET window == {s \in TableRows(db[q.from_expression]) : SnapshotWhere(q, s)}
        keys == {Restrict(x.c, Range(q.join_key_columns)) : x \in window}
    IN {{SnapshotProject(q, f[k]) : k \in keys}
          : f \in {f \in [keys -> window] :
                     \A k \in keys : f[k] \in SnapshotFirstRows(q, window, k)}}

\* What the engine may return for a compiled query.
ExecuteQuery(q, db) ==
    IF q.template = "pull_latest" THEN PullLatestResults(q, db)
    ELSE {PointInTimeJoin(q, db)}

\* ---------------------------------------------------------- TrinoRetrievalJob
MaxCalls == 3                       \* calls: the one that builds the job, then
                                    \* the operations invoked on it

DefaultTimeout == 1800
DefaultRetryCadence == 10

RECURSIVE StrJoin(_)
StrJoin(chars) == IF chars = <<>> THEN "" ELSE Head(chars) \o StrJoin(Tail(chars))

\* date.strftime("%Y%m%d"): four, two and two digits, zero padded.
Strftime(d) ==
    Digit(d.year \div 1000) \o Digit((d.year \div 100) % 10)
        \o Digit((d.year \div 10) % 10) \o Digit(d.year % 10)
        \o Digit(d.month \div 10) \o Digit(d.month % 10)
        \o Digit(d.day \div 10) \o Digit(d.day % 10)

\* str(uuid.uuid4()): 36 characters, 8-4-4-4-12 hexadecimal digits.
HexChars == {"0", "1", "2", "3", "4", "5", "6", "7", "8", "9",
             "a", "b", "c", "d", "e", "f"}
StrUuid(first8) ==
    first8 \o <<"-", "1", "b", "2", "d", "-", "4", "c", "3", "e", "-",
                "8", "f", "4", "a", "-",
                "5", "b", "6", "c", "7", "d", "8", "e", "9", "f", "0", "0">>

\* A slip in the slice: eight characters.
RandIdEight(uuid) == StrJoin(SubSeq(uuid, 1, 8))

\* str(uuid.uuid4())[:7]
RandId(uuid) == StrJoin(SubSeq(uuid, 1, 7))

\* self._client.project: the catalog the client was opened on.
ClientProject(config) == config.catalog

DestinationTable(config, today, rand_id) ==
    ClientProject(config) \o "." \o config.dataset \o ".historical_"
        \o today \o "_" \o rand_id

\* f"CREATE TABLE {name} AS ({query})"
CreateTableAs(name, query) ==
    [template |-> "CREATE TABLE AS", table |-> name, as |-> query]

\* The bag of the column values of a set of rows.
RowsToBag(rows) ==
    [c \in {r.c : r \in rows} |-> Cardinality({r \in rows : r.c = c})]

\* A job that caches: a statement already submitted is not submitted again.
SubmitQueryCached(log, query_text) ==
    IF \E i \in DOMAIN log : log[i] = query_text THEN log ELSE Append(log, query_text)

\* Trino.execute_query: the statement reaches the engine.
SubmitQuery(log, query_text) == Append(log, query_text)

TrinoRetrievalJob(query, config, full_feature_names) ==
    [query |-> query, config |-> config, full_feature_names |-> full_feature_names]

\* What an operation's caller observes, recorded in calls.
Call(op, args, returned) ==
    [op |-> op, args |-> args, before |-> Len(submitted),
     after |-> Len(submitted'), returned |-> returned]

\* _to_df_internal
ToDfInternal ==
    /\ job # NoJob
    /\ Len(calls) < MaxCalls
    /\ submitted' = SubmitQuery(submitted, job.query)
    /\ \E rows \in ExecuteQuery(job.query, tables) :
          result' = [kind |-> "DataFrame", rows |-> rows]
    /\ calls' = Append(calls, Call("to_df", <<>>, "DataFrame"))
    /\ UNCHANGED <<featureviews, tables, job>>

\* _to_arrow_internal
ToArrowInternal ==
    /\ job # NoJob
    /\ Len(calls) < MaxCalls
    /\ submitted' = SubmitQuery(submitted, job.query)
    /\ \E rows \in ExecuteQuery(job.query, tables) :
          result' = [kind |-> "Table", rows |-> rows]
    /\ calls' = Append(calls, Call("to_arrow", <<>>, "Table"))
    /\ UNCHANGED <<featureviews, tables, job>>

\* to_sql
ToSql ==
    /\ job # NoJob
    /\ Len(calls) < MaxCalls
    /\ result' = [kind |-> "sql", text |-> job.query]
    /\ UNCHANGED <<featureviews, tables, job, submitted>>
    /\ calls' = Append(calls, Call("to_sql", <<>>, "sql"))

\* to_trino: the engine rejects CREATE TABLE for a table that exists, and the
\* error propagates out of to_trino.
ToTrino(timeout, retry_cadence, date_today, uuid4) ==
    LET today == Strftime(date_today)
        rand_id == RandId(uuid4)
        destination_table == DestinationTable(job.config, today, rand_id)
        query == CreateTableAs(destination_table, job.query)
        args == [timeout |-> timeout, retry_cadence |-> retry_cadence,
                 today |-> date_today, uuid4 |-> uuid4]
    IN /\ job # NoJob
       /\ Len(calls) < MaxCalls
       /\ submitted' = SubmitQuery(submitted, query)
       /\ IF destination_table \in DOMAIN tables
          THEN /\ tables' = tables
               /\ result' = [kind |-> "raised"]
               /\ calls' = Append(calls, Call("to_trino", args, "raised"))
          ELSE /\ \E rows \in ExecuteQuery(job.query, tables) :
                     tables' = tables @@ (destination_table :> RowsToBag(rows))
               /\ result' = [kind |-> "str", text |-> destination_table]
               /\ calls' = Append(calls, Call("to_trino", args, destination_table))
       /\ UNCHANGED <<featureviews, job>>

\* ------------------------------------------------------------ TrinoOfflineStore
\* The query build_point_in_time_query renders from the template.
PointInTimeQuery(contexts, full_feature_names) ==
    [template |-> "MULTIPLE_FEATURE_VIEW_POINT_IN_TIME_JOIN",
     featureviews |-> contexts,
     left_table_query_string |-> EntityTable,
     entity_df_event_timestamp_col |-> entity_df_event_timestamp_col,
     entity_df_columns |-> EntityDfCols,
     full_feature_names |-> full_feature_names]

\* get_historical_features, for an entity_df given as a SQL text denoting the
\* bag entity_rows: the upload (_upload_entity_df_and_get_entity_schema)
\* submits two statements, then the job is built and nothing else runs.
GetHistoricalFeatures(config, entity_rows, full_feature_names) ==
    /\ job = NoJob
    /\ submitted' =
          SubmitQuery(
              SubmitQuery(submitted,
                          CreateTableAs(EntityTable,
                                        [template |-> "entity_df", rows |-> entity_rows])),
              [template |-> "SELECT * LIMIT 1", from |-> EntityTable])
    /\ tables' = tables @@ (EntityTable :> entity_rows)
    /\ job' = TrinoRetrievalJob(PointInTimeQuery(featureviews, full_feature_names),
                                config, full_feature_names)
    /\ calls' = Append(calls, Call("get_historical_features",
                                   [full_feature_names |-> full_feature_names], "job"))
    /\ UNCHANGED <<featureviews, result>>

\* pull_latest_from_table_or_query for feature view fv: builds the job and
\* submits nothing.
PullLatestFromTableOrQuery(config, fv, start_date, end_date) ==
    /\ job = NoJob
    /\ job' = TrinoRetrievalJob(
                  PullLatestQuery(fv.table_subquery, fv.entities, fv.features,
                                  fv.event_timestamp_column,
                                  fv.created_timestamp_column, start_date, end_date),
                  config, FALSE)
    /\ UNCHANGED <<featureviews, tables, submitted, result>>
    /\ calls' = Append(calls, Call("pull_latest_from_table_or_query",
                                   [start_date |-> start_date, end_date |-> end_date],
                                   "job"))

\* ------------------------------------------------------------ specifications
Config(catalog, dataset) == [catalog |-> catalog, dataset |-> dataset]
DefaultConfig == Config("memory", "feast")

\* A feature view's query context.
Context(name, entities, features, created_timestamp_column, ttl) ==
    [name |-> name, entities |-> entities, features |-> features,
     event_timestamp_column |-> "ts",
     created_timestamp_column |-> created_timestamp_column,
     ttl |-> ttl, table_subquery |-> name \o "_source"]

EntityLists == {<<>>, <<"driver_id">>, <<"driver_id", "customer_id">>}

\* Every content of the sources of the views, of at most n rows each.
SourceTables(views, n) ==
    LET names == {views[i].table_subquery : i \in DOMAIN views}
        ViewOf(name) == views[CHOOSE i \in DOMAIN views : views[i].table_subquery = name]
    IN {t \in [names -> UNION {BagsUpTo(SourceRows(ViewOf(name)), n) : name \in names}] :
          \A name \in names : DOMAIN t[name] \subseteq SourceRows(ViewOf(name))}

InitWith(viewLists, n) ==
    /\ featureviews \in viewLists
    /\ tables \in SourceTables(featureviews, n)
    /\ job = NoJob
    /\ submitted = <<>>
    /\ calls = <<>>
    /\ result = NoResult

\* One feature view, of every shape, joined to every request table.
JoinViewLists ==
    {<<Context("driver_stats", e, <<"conv_rate">>, c, t)>> :
        e \in EntityLists, c \in {"", "created"}, t \in Ttls}

InitJoin == InitWith(JoinViewLists, MaxSrc)

NextJoin ==
    \/ \E entity_rows \in BagsUpTo(EntityDfRows, MaxReq) :
          GetHistoricalFeatures(DefaultConfig, entity_rows, FALSE)
    \/ Len(calls) = 1 /\ ToDfInternal

SpecJoin == InitJoin /\ [][NextJoin]_vars

\* One feature view keyed by two columns, over sources of one more row: room
\* for two tied rows of one key and a row of another key.
TieViewLists ==
    {<<Context("driver_stats", <<"driver_id", "customer_id">>, <<"conv_rate">>, "", t)>> :
        t \in Ttls}

InitTies == InitWith(TieViewLists, MaxSrc + 1)

SpecTies == InitTies /\ [][NextJoin]_vars

\* Two feature views with different join keys: one keyed by driver_id, one
\* with no entity.  The request rows differ in driver_id and timestamp.
MultiViewLists ==
    {<<Context("driver_stats", <<"driver_id">>, <<"conv_rate">>, "", t),
       Context("global_stats", <<>>, <<"acc_rate">>, "", 0)>> : t \in Ttls}
MultiEntityDfRows == {r \in EntityDfRows : r["customer_id"] = 1}

InitMulti == InitWith(MultiViewLists, MaxSrc)

NextMulti ==
    \/ \E entity_rows \in BagsUpTo(MultiEntityDfRows, MaxReq), full_feature_names \in BOOLEAN :
          GetHistoricalFeatures(DefaultConfig, entity_rows, full_feature_names)
    \/ Len(calls) = 1 /\ ToDfInternal

SpecMulti == InitMulti /\ [][NextMulti]_vars

\* The snapshot of one feature view of every shape over every window.
SnapViewLists ==
    {<<Context("driver_stats", e, <<"conv_rate">>, c, 0)>> :
        e \in EntityLists, c \in {"", "created"}}

InitSnap == InitWith(SnapViewLists, MaxSrc + 1)

NextSnap ==
    \/ \E start_date \in EventTimes, end_date \in EventTimes :
          PullLatestFromTableOrQuery(DefaultConfig, featureviews[1], start_date, end_date)
    \/ Len(calls) = 1 /\ ToDfInternal

SpecSnap == InitSnap /\ [][NextSnap]_vars

\* Every sequence of operations on one job, over small tables.
JobViewLists == {<<Context("driver_stats", <<"driver_id">>, <<"conv_rate">>, "created", 1)>>}
Configs == {Config("memory", "feast"), Config("c", "d")}
Dates == {[year |-> 2024, month |-> 1, day |-> 2], [year |-> 2026, month |-> 11, day |-> 30]}
\* Three uuids; the first two agree on their first seven characters.
Uuids == {StrUuid(<<"3", "f", "2", "a", "9", "c", "1", "e">>),
          StrUuid(<<"3", "f", "2", "a", "9", "c", "1", "0">>),
          StrUuid(<<"0", "0", "d", "e", "a", "d", "b", "7">>)}
Patience == {<<DefaultTimeout, DefaultRetryCadence>>, <<60, 1>>}
JobEntityDf ==
    BagAdd(EmptyBag, [driver_id |-> 1, customer_id |-> 1, event_timestamp |-> 1])

InitJob == InitWith(JobViewLists, 1)

NextJob ==
    \/ \E config \in Configs :
          PullLatestFromTableOrQuery(config, featureviews[1], 0, MaxTs)
    \/ \E config \in Configs, full_feature_names \in BOOLEAN :
          GetHistoricalFeatures(config, JobEntityDf, full_feature_names)
    \/ ToDfInternal
    \/ ToArrowInternal
    \/ ToSql
    \/ \E p \in Patience, date_today \in Dates, uuid4 \in Uuids :
          ToTrino(p[1], p[2], date_today, uuid4)

SpecJob == InitJob /\ [][NextJob]_vars

\* =================================================================== claims
\* The point-in-time join has been compiled / has returned its rows.
Compiled == job # NoJob /\ job.query.template = "MULTIPLE_FEATURE_VIEW_POINT_IN_TIME_JOIN"
Joined == Compiled /\ result.kind = "DataFrame"

Views == {job.query.featureviews[i] : i \in DOMAIN job.query.featureviews}
ViewIndex(fv) == CHOOSE i \in DOMAIN job.query.featureviews : job.query.featureviews[i] = fv

\* The entity request rows and a view's source rows, copy by copy.
Requests == TableRows(tables[EntityTable])
Sources(fv) == TableRows(tables[fv.table_subquery])

\* The rows of F eligible for request row r, stated on the input tables:
\* same join keys, event timestamp in [r.timestamp - ttl, r.timestamp]
\* (no lower bound when ttl = 0).
Eligible(fv, r) ==
    {s \in Sources(fv) :
       /\ \A k \in DOMAIN fv.entities : s.c[fv.entities[k]] = r.c[fv.entities[k]]
       /\ s.c[fv.event_timestamp_column] <= r.c[entity_df_event_timestamp_col]
       /\ fv.ttl # 0 =>
            s.c[fv.event_timestamp_column] >= r.c[entity_df_event_timestamp_col] - fv.ttl}

\* s is later than t: a later event timestamp, or the same one and a later
\* created timestamp when the view has one.
Later(fv, s, t) ==
    \/ s.c[fv.event_timestamp_column] > t.c[fv.event_timestamp_column]
    \/ /\ fv.created_timestamp_column # ""
       /\ s.c[fv.event_timestamp_column] = t.c[fv.event_timestamp_column]
       /\ s.c[fv.created_timestamp_column] > t.c[fv.created_timestamp_column]

LatestEligible(fv, r) ==
    {s \in Eligible(fv, r) : ~\E t \in Eligible(fv, r) : Later(fv, t, s)}

\* The rows returned for request row r, and what they say about view fv.
OutRows(r) == {o \in result.rows : o.id[1] = r.id}
OutFeatures(fv, o) ==
    [k \in DOMAIN fv.features |->
       o.c[IF job.full_feature_names THEN fv.name \o "__" \o fv.features[k]
           ELSE fv.features[k]]]
FeaturesOf(fv, s) == [k \in DOMAIN fv.features |-> s.c[fv.features[k]]]
NullFeatures(fv) == [k \in DOMAIN fv.features |-> NULL]

\* The value returned for r is that of a latest eligible row, or NULL when
\* there is none.
AsOfValue(fv, r) ==
    /\ OutRows(r) # {}
    /\ \A o \in OutRows(r) :
          IF Eligible(fv, r) = {}
          THEN OutFeatures(fv, o) = NullFeatures(fv)
          ELSE \E s \in LatestEligible(fv, r) : OutFeatures(fv, o) = FeaturesOf(fv, s)

\* C1: as-of correctness.  For every request row r and every feature view F
\* with ttl > 0, the feature value returned for r is the value of the F row
\* with matching join keys that has the latest event timestamp <= r's (then
\* the latest created timestamp) within [r.timestamp - ttl, r.timestamp], and
\* NULL when there is no such row.
C1_AsOfCorrectness ==
    Joined => \A fv \in Views : fv.ttl > 0 => \A r \in Requests : AsOfValue(fv, r)

\* C3: ttl = 0 is an unbounded look-back.  For a view with ttl = 0, every
\* source row with matching join keys and event timestamp <= r's is in
\* <fv>__base for r whatever its age, and the latest of them supplies the
\* value returned for r.
C3_TtlZeroUnbounded ==
    Joined =>
      \A fv \in Views : fv.ttl = 0 =>
        \A r \in Requests :
          /\ \A s \in Sources(fv) :
                (/\ \A k \in DOMAIN fv.entities : s.c[fv.entities[k]] = r.c[fv.entities[k]]
                 /\ s.c[fv.event_timestamp_column] <= r.c[entity_df_event_timestamp_col])
                => \E b \in base(job.query, tables, fv) :
                      /\ b.id = s.id
                      /\ b.c["entity_timestamp"] = r.c[entity_df_event_timestamp_col]
                      /\ b.c[UidCol(fv)] =
                           EntityRowUniqueId(fv, r.c, entity_df_event_timestamp_col)
          /\ AsOfValue(fv, r)

\* C8: rank-1 ties are retained.  When two or more eligible rows of F for
\* request row r share the latest (event, created) timestamps, the rows
\* returned for r are one per tied row.
TieRetention(fv, r) ==
    Cardinality(LatestEligible(fv, r)) >= 2 =>
      /\ {o.id[ViewIndex(fv) + 1] : o \in OutRows(r)} = {s.id : s \in LatestEligible(fv, r)}
      /\ Len(job.query.featureviews) = 1 =>
            Cardinality(OutRows(r)) = Cardinality(LatestEligible(fv, r))
C8_TieRetention ==
    Joined => \A fv \in Views : \A r \in Requests : TieRetention(fv, r)

\* C9: the entity-row unique id is injective per feature view.  Two request
\* rows have the same <fv>__entity_row_unique_id only if they agree on every
\* join key of the view and on the entity timestamp.
UidInjective(fv) ==
    \A e1, e2 \in entity_dataframe(job.query, tables) :
       e1.c[UidCol(fv)] = e2.c[UidCol(fv)] =>
          /\ \A k \in DOMAIN fv.entities : e1.c[fv.entities[k]] = e2.c[fv.entities[k]]
          /\ e1.c["entity_timestamp"] = e2.c["entity_timestamp"]
C9_UidInjective == Compiled => \A fv \in Views : UidInjective(fv)

\* C1, C3 and C8 hold in every state where the unique ids of the request rows
\* are distinct for distinct (join keys, timestamp): they fail only through
\* the collisions of C9.
C1_WhenUidInjective ==
    Joined => \A fv \in Views :
                 (fv.ttl > 0 /\ UidInjective(fv)) => \A r \in Requests : AsOfValue(fv, r)
C3_WhenUidInjective ==
    Joined => \A fv \in Views :
                 (fv.ttl = 0 /\ UidInjective(fv)) => \A r \in Requests : AsOfValue(fv, r)
C8_WhenUidInjective ==
    Joined => \A fv \in Views : UidInjective(fv) => \A r \in Requests : TieRetention(fv, r)

\* C10: the coarse pre-filter is sound.  It removes no source row that
\* satisfies the as-of join condition for some request row, and the rows
\* returned are those of the same join over the unfiltered source.
Unfiltered(fv) == {SubqueryProject(job.query, fv, s) : s \in Sources(fv)}
C10_PrefilterSound ==
    Joined =>
      /\ \A fv \in Views :
            \A s \in Unfiltered(fv) :
               (\E e \in fv_entity_dataframe(job.query, tables, fv) : BaseOn(fv, s, e))
                  => s \in subquery(job.query, tables, fv)
      /\ result.rows =
            FinalSelectOver(job.query, tables,
                            [i \in DOMAIN job.query.featureviews |->
                               Unfiltered(job.query.featureviews[i])])
\* The pre-filter removed a row and a request row still got a value.
C10_Witness ==
    /\ Joined
    /\ \E fv \in Views :
          /\ Unfiltered(fv) # subquery(job.query, tables, fv)
          /\ \E r \in Requests : Eligible(fv, r) # {}

\* C2 as stated: the number of rows of the final result equals the
\* deduplicated entity-request row count, and no request row is dropped.
C2_RowCountIsDedupCount ==
    Joined =>
      /\ Cardinality(result.rows) = Cardinality(DOMAIN tables[EntityTable])
      /\ \A r \in Requests : OutRows(r) # {}

\* The rows of <fv>__cleaned that the final LEFT JOIN matches to request row r.
CleanedFor(fv, r) ==
    {x \in cleaned(fv, base(job.query, tables, fv)) :
       x.c[UidCol(fv)] = EntityRowUniqueId(fv, r.c, entity_df_event_timestamp_col)}

\* C2, amended: every entity-request row, duplicates included, is in the
\* final result at least once with its own column values, so the result has
\* at least as many rows as the request table; it has exactly as many when
\* no request row matches more than one row of any view's <fv>__cleaned.
C2_NoRequestRowDropped ==
    Joined =>
      /\ \A r \in Requests :
            /\ OutRows(r) # {}
            /\ \A o \in OutRows(r) : Restrict(o.c, EntityDfCols) = r.c
      /\ Cardinality(result.rows) >= Cardinality(Requests)
      /\ (\A fv \in Views : \A r \in Requests : Cardinality(CleanedFor(fv, r)) <= 1)
            => Cardinality(result.rows) = Cardinality(Requests)
\* A request row given twice, for which every feature view misses.
C2_Witness ==
    /\ Joined
    /\ Len(job.query.featureviews) = 2
    /\ \E r \in Requests :
          /\ tables[EntityTable][r.c] = 2
          /\ \A fv \in Views : Eligible(fv, r) = {}
          /\ \A o \in OutRows(r) : \A fv \in Views : OutFeatures(fv, o) = NullFeatures(fv)
    /\ Cardinality(result.rows) = 2

\* C7: the namespacing toggle.  Over the same contexts and data, the result
\* compiled with qualified names is the result compiled with bare names with
\* every feature column of every view renamed <feature_view>__<feature>: the
\* same rows, the same entity columns, the same value in each feature column.
BareFeatureNames == UNION {Range(fv.features) : fv \in Views}
QualifiedOf(fv, feature) == fv.name \o "__" \o feature
QualifiedFeatureNames ==
    UNION {{QualifiedOf(fv, fv.features[k]) : k \in DOMAIN fv.features} : fv \in Views}
Qualify(c) ==
    [n \in (DOMAIN c \ BareFeatureNames) \cup QualifiedFeatureNames |->
       IF n \in QualifiedFeatureNames
       THEN LET fv == CHOOSE v \in Views : \E k \in DOMAIN v.features :
                                              QualifiedOf(v, v.features[k]) = n
                f == CHOOSE g \in Range(fv.features) : QualifiedOf(fv, g) = n
            IN c[f]
       ELSE c[n]]
CompiledWith(full_feature_names) ==
    IF job.full_feature_names = full_feature_names
    THEN result.rows
    ELSE PointInTimeJoin(PointInTimeQuery(job.query.featureviews, full_feature_names),
                         tables)
C7_NamespacingToggle ==
    Joined =>
      /\ CompiledWith(TRUE) = {[id |-> o.id, c |-> Qualify(o.c)] : o \in CompiledWith(FALSE)}
      /\ \A o \in CompiledWith(TRUE) : DOMAIN o.c = EntityDfCols \cup QualifiedFeatureNames
      /\ \A o \in CompiledWith(FALSE) : DOMAIN o.c = EntityDfCols \cup BareFeatureNames
\* A result compiled with qualified names in which both views gave a value.
C7_Witness ==
    /\ Joined
    /\ job.full_feature_names
    /\ \E o \in result.rows : \A n \in QualifiedFeatureNames : o.c[n] # NULL

\* ------------------------------------------------------------------ snapshot
Snapshot == job # NoJob /\ job.query.template = "pull_latest" /\ result.kind = "DataFrame"

\* The source rows within [start, end], as the caller gave the interval.
SnapView == featureviews[1]
InWindow ==
    {s \in Sources(SnapView) :
       /\ calls[1].args.start_date <= s.c[SnapView.event_timestamp_column]
       /\ s.c[SnapView.event_timestamp_column] <= calls[1].args.end_date}
JoinKey(c) == [k \in DOMAIN SnapView.entities |-> c[SnapView.entities[k]]]

\* C4: snapshot correctness.  The query returns exactly one row per join-key
\* combination that has a source row with event timestamp in [start, end],
\* and that row is one with the greatest event timestamp (then the greatest
\* created timestamp, when there is a created-timestamp column) of its group;
\* with no join key it returns one row overall, with the sentinel entity id.
C4_SnapshotCorrect ==
    Snapshot =>
      /\ {JoinKey(o.c) : o \in result.rows} = {JoinKey(s.c) : s \in InWindow}
      /\ \A o1, o2 \in result.rows : JoinKey(o1.c) = JoinKey(o2.c) => o1 = o2
      /\ \A o \in result.rows :
            \E s \in InWindow :
               /\ o.id = <<s.id>>
               /\ \A n \in DOMAIN s.c : o.c[n] = s.c[n]
               /\ ~\E t \in InWindow : JoinKey(t.c) = JoinKey(s.c) /\ Later(SnapView, t, s)
      /\ SnapView.entities = <<>> =>
            /\ InWindow # {} => Cardinality(result.rows) = 1
            /\ \A o \in result.rows :
                  DUMMY_ENTITY_ID \in DOMAIN o.c /\ o.c[DUMMY_ENTITY_ID] = DUMMY_ENTITY_VAL
\* Two rows of one key in the window, the later one returned, and a row
\* outside the window.
C4_Witness ==
    /\ Snapshot
    /\ InWindow # Sources(SnapView)
    /\ \E s, t \in InWindow :
          /\ JoinKey(s.c) = JoinKey(t.c)
          /\ Later(SnapView, s, t)
          /\ \E o \in result.rows : o.id = <<s.id>>

\* ------------------------------------------------------------ retrieval job
\* The calls that execute the job's query, and the submissions of it.
Executing == {"to_df", "to_arrow", "to_trino"}
JobCalls == {i \in DOMAIN calls : i > 1}
IsSubmissionOfQuery(statement) ==
    \/ statement = job.query
    \/ statement.template = "CREATE TABLE AS" /\ statement.as = job.query

\* C5: deferred, uncached execution.  Building the job submits nothing of
\* its query; after any sequence of operations the compiled query has been
\* submitted once per to_df, to_arrow and to_trino call and never by to_sql,
\* each call submitting exactly one statement; and the job's query never
\* changes.
C5_Submissions ==
    job # NoJob =>
      /\ Cardinality({i \in DOMAIN submitted : IsSubmissionOfQuery(submitted[i])})
           = Cardinality({i \in JobCalls : calls[i].op \in Executing})
      /\ \A i \in JobCalls :
            /\ calls[i].op \in Executing =>
                  /\ calls[i].after = calls[i].before + 1
                  /\ IsSubmissionOfQuery(submitted[calls[i].after])
            /\ calls[i].op = "to_sql" => calls[i].after = calls[i].before
      /\ calls[1].op = "pull_latest_from_table_or_query" => calls[1].after = 0
C5_DeferredUncached ==
    /\ []C5_Submissions
    /\ [][job # NoJob => job' = job]_vars
\* The same materialisation invoked twice on one job.
C5_Witness ==
    /\ job # NoJob
    /\ Len(calls) = 3
    /\ calls[2].op = "to_df"
    /\ calls[3].op = "to_df"

\* C6: export to a destination table.  Every to_trino call submits exactly
\* one statement CREATE TABLE <name> AS (<the job's query>), with <name> =
\* <catalog>.<dataset>.historical_<YYYYMMDD of the call date>_<the first 7
\* characters of the uuid, all hexadecimal>; what it returns is that name,
\* and then the table exists; timeout and retry_cadence change nothing.
YYYYMMDD(d) ==
    StrJoin(<<Digit(d.year \div 1000), Digit((d.year % 1000) \div 100),
              Digit((d.year % 100) \div 10), Digit(d.year % 10),
              Digit(d.month \div 10), Digit(d.month % 10),
              Digit(d.day \div 10), Digit(d.day % 10)>>)
ExpectedName(args) ==
    job.config.catalog \o "." \o job.config.dataset \o ".historical_"
        \o YYYYMMDD(args.today) \o "_"
        \o StrJoin([k \in 1..7 |-> args.uuid4[k]])
C6_ExportToTable ==
    job # NoJob =>
      \A i \in JobCalls :
         calls[i].op = "to_trino" =>
            /\ calls[i].after = calls[i].before + 1
            /\ submitted[calls[i].after] =
                  [template |-> "CREATE TABLE AS",
                   table |-> ExpectedName(calls[i].args),
                   as |-> job.query]
            /\ \A k \in 1..7 : calls[i].args.uuid4[k] \in HexChars
            /\ calls[i].returned \in {ExpectedName(calls[i].args), "raised"}
            /\ calls[i].returned # "raised" => calls[i].returned \in DOMAIN tables
            /\ \A j \in JobCalls :
                  (/\ calls[j].op = "to_trino"
                   /\ calls[j].args.today = calls[i].args.today
                   /\ calls[j].args.uuid4 = calls[i].args.uuid4)
                  => submitted[calls[j].after] = submitted[calls[i].after]
\* Two exports on the same day with different timeout and retry_cadence.
C6_Witness ==
    /\ job # NoJob
    /\ Len(calls) = 3
    /\ calls[2].op = "to_trino" /\ calls[3].op = "to_trino"
    /\ calls[2].returned # "raised" /\ calls[3].returned # "raised"
    /\ calls[2].args.timeout # calls[3].args.timeout
    /\ calls[2].args.today = calls[3].args.today
====
